---- MODULE Spec2Model ----
(***************************************************************************)
(* Student Progress Tracker (src/98P_C78_PY.py): the Student record, the   *)
(* Tkinter application StudentPerformanceApp and the console ConsoleTracker*)
(* as one state machine.  main() starts either the console loop (--cli) or *)
(* the GUI; `mode` is that choice and never changes afterwards.            *)
(*                                                                         *)
(* A Python str is a sequence of one-character strings, so that strip(),   *)
(* lower(), `in` and int() are computed and not assumed.  An average is    *)
(* held in hundredths (41.67 is 4167).                                     *)
(***************************************************************************)
EXTENDS Integers, Sequences, FiniteSets, TLC

VARIABLES
    mode,       \* "gui" (StudentPerformanceApp) or "cli" (ConsoleTracker.run)
    running,    \* the session is alive (the command loop / mainloop runs)
    students,   \* self.students: the list of Student records
    tree,       \* gui: the rows of self.tree (ttk.Treeview), in display order
    selection,  \* gui: the iids selected in self.tree
    call,       \* the handler that ran last and the raw input it read
    msgs,       \* what that handler showed (message boxes) or printed, in order
    hits,       \* the result of the last search (rolls in the GUI, Students in the CLI)
    top,        \* the index in students of the Student the last topper call reported
    written     \* the rows / lines that handler wrote to a file, <<>> when it wrote none

vars == <<mode, running, students, tree, selection, call, msgs, hits, top, written>>

(***************************************************************************)
(* Bounds of the model.                                                    *)
(***************************************************************************)
MaxStudents == 2   \* add/update appends only while the list is shorter than this
MaxRows == 2       \* a CSV file read by load has at most this many data rows

(***************************************************************************)
(* Python built-ins used by the program.                                   *)
(***************************************************************************)
Digits == <<"0", "1", "2", "3", "4", "5", "6", "7", "8", "9">>

IsDigit(c) == \E i \in 1..Len(Digits) : Digits[i] = c

DigitVal(c) == (CHOOSE i \in 1..Len(Digits) : Digits[i] = c) - 1

IsSpace(c) == c = " "

RECURSIVE LStrip(_)
LStrip(s) == IF s # <<>> /\ IsSpace(Head(s)) THEN LStrip(Tail(s)) ELSE s

RECURSIVE RStrip(_)
RStrip(s) ==
    IF s # <<>> /\ IsSpace(s[Len(s)]) THEN RStrip(SubSeq(s, 1, Len(s) - 1)) ELSE s

\* str.strip()
Strip(s) == RStrip(LStrip(s))

LowerChar(c) ==
    CASE c = "A" -> "a"
      [] c = "B" -> "b"
      [] c = "O" -> "o"
      [] OTHER -> c

LowerPrefixOnly(s) == [i \in 1..Len(s) |-> IF i = 1 THEN LowerChar(s[i]) ELSE s[i]]

\* str.lower()
Lower(s) == [i \in 1..Len(s) |-> LowerChar(s[i])]

ContainsAtStart(q, s) == Len(q) <= Len(s) /\ SubSeq(s, 1, Len(q)) = q

\* q in s  (substring test on str)
Contains(q, s) ==
    \E i \in 0..(Len(s) - Len(q)) : SubSeq(s, i + 1, i + Len(q)) = q

RECURSIVE DecVal(_)
DecVal(d) ==
    IF d = <<>> THEN 0
    ELSE 10 * DecVal(SubSeq(d, 1, Len(d) - 1)) + DigitVal(d[Len(d)])

\* The digits of an int() literal: ok = FALSE is ValueError.
ParseDigits(d) ==
    [ok |-> d # <<>> /\ \A i \in 1..Len(d) : IsDigit(d[i]),
     val |-> IF d # <<>> /\ \A i \in 1..Len(d) : IsDigit(d[i]) THEN DecVal(d) ELSE 0]

Negated(p) == [ok |-> p.ok, val |-> 0 - p.val]

ParseSigned(s) ==
    IF s # <<>> /\ Head(s) = "-" THEN Negated(ParseDigits(Tail(s)))
    ELSE IF s # <<>> /\ Head(s) = "+" THEN ParseDigits(Tail(s))
    ELSE ParseDigits(s)

\* int(text): surrounding whitespace is ignored, an optional sign, then digits;
\* anything else raises ValueError.
IntOf(t) == ParseSigned(Strip(t))

RECURSIVE SumSeq(_)
SumSeq(s) == IF s = <<>> THEN 0 ELSE Head(s) + SumSeq(Tail(s))

(***************************************************************************)
(* Student: total(), average(), grade().                                   *)
(***************************************************************************)
Student(roll, name, marks) == [roll |-> roll, name |-> name, marks |-> marks]

Total(st) == SumSeq(st.marks)

AverageTruncated(st) ==
    IF st.marks = <<>> THEN 0
    ELSE (100 * Total(st)) \div Len(st.marks)

\* round(total / len(marks), 2) in hundredths, 0.0 for no marks.  total*100/len
\* is rounded to the nearest integer; for len = 3 it is never half-way.
Average(st) ==
    IF st.marks = <<>> THEN 0
    ELSE (200 * Total(st) + Len(st.marks)) \div (2 * Len(st.marks))

GradeStrict(st) ==
    LET avg == Average(st)
    IN  IF avg > 9000 THEN "A+"
        ELSE IF avg > 8000 THEN "A"
        ELSE IF avg > 7000 THEN "B"
        ELSE IF avg > 6000 THEN "C"
        ELSE IF avg > 5000 THEN "D"
        ELSE "F"

Grade(st) ==
    LET avg == Average(st)
    IN  IF avg >= 9000 THEN "A+"
        ELSE IF avg >= 8000 THEN "A"
        ELSE IF avg >= 7000 THEN "B"
        ELSE IF avg >= 6000 THEN "C"
        ELSE IF avg >= 5000 THEN "D"
        ELSE "F"

(***************************************************************************)
(* Helpers of both front ends.                                             *)
(***************************************************************************)
FindIndexSkippingFirst(studs, roll) ==
    IF \E i \in 2..Len(studs) : studs[i].roll = roll
    THEN CHOOSE i \in 2..Len(studs) :
            /\ studs[i].roll = roll
            /\ \A j \in 2..(i - 1) : studs[j].roll # roll
    ELSE 0

\* _find_student_index_by_roll / find_index: the first index whose roll is
\* `roll`; None is 0.
FindIndex(studs, roll) ==
    IF \E i \in 1..Len(studs) : studs[i].roll = roll
    THEN CHOOSE i \in 1..Len(studs) :
            /\ studs[i].roll = roll
            /\ \A j \in 1..(i - 1) : studs[j].roll # roll
    ELSE 0

CheckedMarksNoRange(p1, p2, p3) ==
    IF ~p1.ok \/ ~p2.ok \/ ~p3.ok
    THEN [err |-> "Marks must be integers (0-100).", nums |-> <<>>]
    ELSE [err |-> "", nums |-> <<p1.val, p2.val, p3.val>>]

CheckedMarksInOrder(p1, p2, p3) ==
    IF ~p1.ok THEN [err |-> "Marks must be integers (0-100).", nums |-> <<>>]
    ELSE IF p1.val < 0 \/ p1.val > 100
    THEN [err |-> "Marks must be between 0 and 100.", nums |-> <<>>]
    ELSE IF ~p2.ok THEN [err |-> "Marks must be integers (0-100).", nums |-> <<>>]
    ELSE IF p2.val < 0 \/ p2.val > 100
    THEN [err |-> "Marks must be between 0 and 100.", nums |-> <<>>]
    ELSE IF ~p3.ok THEN [err |-> "Marks must be integers (0-100).", nums |-> <<>>]
    ELSE IF p3.val < 0 \/ p3.val > 100
    THEN [err |-> "Marks must be between 0 and 100.", nums |-> <<>>]
    ELSE [err |-> "", nums |-> <<p1.val, p2.val, p3.val>>]

\* The range loop of _parse_marks over the parsed values p1, p2, p3.
CheckedMarks(p1, p2, p3) ==
    IF ~p1.ok \/ ~p2.ok \/ ~p3.ok
    THEN [err |-> "Marks must be integers (0-100).", nums |-> <<>>]
    ELSE IF \E n \in {p1.val, p2.val, p3.val} : n < 0 \/ n > 100
    THEN [err |-> "Marks must be between 0 and 100.", nums |-> <<>>]
    ELSE [err |-> "", nums |-> <<p1.val, p2.val, p3.val>>]

\* _parse_marks: err = "" on success.
ParseMarks(m1, m2, m3) == CheckedMarks(IntOf(m1), IntOf(m2), IntOf(m3))

\* One row of the Treeview as _refresh_tree inserts it.
TreeRow(st) ==
    [iid |-> st.roll,
     values |-> <<st.roll, st.name, st.marks[1], st.marks[2], st.marks[3],
                  Total(st), Average(st), Grade(st)>>]

\* tree.insert(..., iid=roll) raises TclError ("Item ... already exists") when
\* an item with that iid is in the tree; the root item has the iid "".  This is
\* the first Student whose insert fails, 0 when every insert succeeds.
FirstFailedInsert(studs) ==
    LET bad(i) == \/ studs[i].roll = <<>>
                  \/ \E j \in 1..(i - 1) : studs[j].roll = studs[i].roll
    IN  IF \E i \in 1..Len(studs) : bad(i)
        THEN CHOOSE i \in 1..Len(studs) : bad(i) /\ \A j \in 1..(i - 1) : ~bad(j)
        ELSE 0

\* _refresh_tree: every row is deleted, then one row per Student is inserted
\* in list order, until an insert raises.
RefreshTree(studs) ==
    LET f == FirstFailedInsert(studs)
        n == IF f = 0 THEN Len(studs) ELSE f - 1
    IN  [ok |-> f = 0, rows |-> [i \in 1..n |-> TreeRow(studs[i])]]

UpsertedAtEnd(studs, idx, roll, name, marks) ==
    IF idx = 0
    THEN Append(studs, Student(roll, name, marks))
    ELSE Append(SubSeq(studs, 1, idx - 1) \o SubSeq(studs, idx + 1, Len(studs)),
                Student(roll, name, marks))

\* list.append / in-place update of add_or_update_student and add_or_update;
\* idx is what the index search returned (0 for None).
Upserted(studs, idx, roll, name, marks) ==
    IF idx = 0
    THEN Append(studs, Student(roll, name, marks))
    ELSE [studs EXCEPT ![idx].name = name, ![idx].marks = marks]

\* del self.students[idx]
RemovedFrom(studs, idx) == SubSeq(studs, 1, idx - 1)

Removed(studs, idx) == SubSeq(studs, 1, idx - 1) \o SubSeq(studs, idx + 1, Len(studs))

\* The key of max(): the largest average among studs (studs is not empty).
MaxAverage(studs) ==
    CHOOSE a \in {Average(studs[i]) : i \in 1..Len(studs)} :
        \A j \in 1..Len(studs) : Average(studs[j]) <= a

LastTopperIndex(studs) ==
    CHOOSE i \in 1..Len(studs) :
        /\ Average(studs[i]) = MaxAverage(studs)
        /\ \A j \in (i + 1)..Len(studs) : Average(studs[j]) # MaxAverage(studs)

\* max(range(len(students)), key=average) / max(students, key=average): max()
\* keeps the first item whose key is the largest.
TopperIndex(studs) ==
    CHOOSE i \in 1..Len(studs) :
        /\ Average(studs[i]) = MaxAverage(studs)
        /\ \A j \in 1..(i - 1) : Average(studs[j]) # MaxAverage(studs)

\* q in st.roll.lower() or q in st.name.lower(), q already lower-cased.
Matches(q, st) == Contains(q, Lower(st.roll)) \/ Contains(q, Lower(st.name))

\* [st for st in self.students if ...]: the matching Students in list order.
RECURSIVE MatchingStudents(_, _)
MatchingStudents(q, studs) ==
    IF studs = <<>> THEN <<>>
    ELSE IF Matches(q, Head(studs))
    THEN <<Head(studs)>> \o MatchingStudents(q, Tail(studs))
    ELSE MatchingStudents(q, Tail(studs))

RollsOf(studs) == [i \in 1..Len(studs) |-> studs[i].roll]

TreeIids == {tree[i].iid : i \in 1..Len(tree)}

\* tree.selection()[0]: the first selected row in display order.
FirstSelected ==
    tree[CHOOSE i \in 1..Len(tree) :
            /\ tree[i].iid \in selection
            /\ \A j \in 1..(i - 1) : tree[j].iid \notin selection].iid

(***************************************************************************)
(* Inputs: what the user types, answers and picks.                         *)
(***************************************************************************)
RollTexts == { <<" ", "a">>, <<"A", "b">>, <<"b", " ">> }

\* What the entry boxes hold when Add / Update is clicked: <<roll, name, marks>>.
GoodUpsertInputs ==
    {<<r, nm[1], nm[2]>> :
        r \in RollTexts,
        nm \in {<<<<"B", "o", " ">>, <<<<"5", "0">>, <<"1", "0", "0">>, <<"0">>>>>>,
                <<<<"a", "b">>, <<<<"1", "0", "0">>, <<" ", "9", "0">>, <<"1", "0", "0">>>>>>}}

BadUpsertInputs ==
    { <<<<>>, <<" ">>, <<<<"x">>, <<"0">>, <<"0">>>> >>,
      <<<<" ">>, <<" ">>, <<<<"0">>, <<"5", "0">>, <<"0">>>> >>,
      <<<<" ">>, <<"a", "b">>, <<<<"0">>, <<"1", "0", "1">>, <<"0">>>> >>,
      <<<<"A", "b">>, <<" ">>, <<<<"0">>, <<"1", "0", "1">>, <<"0">>>> >>,
      <<<<" ", "a">>, <<"a", "b">>, <<<<"1", "0", "1">>, <<"0">>, <<>>>> >>,
      <<<<" ", "a">>, <<"a", "b">>, <<<<"0">>, <<"5", "0">>, <<"-", "1">>>> >> }

UpsertInputs == GoodUpsertInputs \cup BadUpsertInputs

\* What is typed for a search.
QueryTexts == { <<" ">>, <<"A">>, <<"B", "O", " ">>, <<"o", "b">> }

SearchInputs == { <<q, <<>>>> : q \in QueryTexts } \cup { <<<<" ">>, <<"b">>>> }

NoCall == [op |-> "", args |-> <<>>]

Msg(title, detail) == <<title, detail>>

(***************************************************************************)
(* StudentPerformanceApp (GUI).                                            *)
(***************************************************************************)
\* The checks of add_or_update_student before it touches the list.
ValidationErrorMarksFirst(roll, name, pm) ==
    IF pm.err # "" THEN pm.err
    ELSE IF roll = <<>> THEN "Roll number cannot be empty."
    ELSE IF name = <<>> THEN "Name cannot be empty."
    ELSE ""

ValidationError(roll, name, pm) ==
    IF roll = <<>> THEN "Roll number cannot be empty."
    ELSE IF name = <<>> THEN "Name cannot be empty."
    ELSE pm.err

\* The end of add_or_update_student: the list is `new`, r is what
\* _refresh_tree made of it; a TclError of the refresh is caught and shown.
GuiUpsertRefreshed(shown, roll, name, new, r) ==
    /\ students' = new
    /\ tree' = r.rows
    /\ selection' = IF r.ok THEN {roll} ELSE {}
    /\ msgs' = IF r.ok
               THEN <<Msg(shown, <<"Student", roll, name>>)>>
               ELSE <<Msg(shown, <<"Student", roll, name>>),
                      Msg("Input Error", <<"TclError: item already exists">>)>>

GuiUpsertStored(shown, roll, name, new) ==
    GuiUpsertRefreshed(shown, roll, name, new, RefreshTree(new))

GuiUpsert(raw, roll, name, pm, idx) ==
    /\ mode = "gui" /\ running
    /\ (ValidationError(roll, name, pm) = "" /\ idx = 0) => Len(students) < MaxStudents
    /\ written' = <<>>
    /\ call' = [op |-> "add_or_update_student", args |-> raw]
    /\ hits' = <<>> /\ top' = 0
    /\ IF ValidationError(roll, name, pm) # ""
       THEN /\ msgs' = <<Msg("Input Error", <<ValidationError(roll, name, pm)>>)>>
            /\ UNCHANGED <<students, tree, selection>>
       ELSE GuiUpsertStored(IF idx = 0 THEN "Added" ELSE "Updated", roll, name,
                            Upserted(students, idx, roll, name, pm.nums))
    /\ UNCHANGED <<mode, running>>

\* Every input with what add_or_update_student makes of the entry boxes before
\* it looks at the list (a function of the input alone, computed once).
GuiEntries ==
    {[raw |-> i, roll |-> Strip(i[1]), name |-> Strip(i[2]),
      pm |-> ParseMarks(i[3][1], i[3][2], i[3][3])] : i \in UpsertInputs}

\* add_or_update_student: the Add / Update button; e.raw is <<roll, name,
\* marks>> as typed.
GuiAddOrUpdateStudent(e) ==
    GuiUpsert(e.raw, e.roll, e.name, e.pm, FindIndex(students, e.roll))

\* A click on row i of the table (selectmode="browse"); on_select_record then
\* copies the Student into the entry boxes.
GuiSelectRecord(i) ==
    /\ mode = "gui" /\ running
    /\ i \in 1..Len(tree)
    /\ selection' = {tree[i].iid}
    /\ written' = <<>>
    /\ call' = [op |-> "on_select_record", args |-> <<i>>]
    /\ msgs' = <<>> /\ hits' = <<>> /\ top' = 0
    /\ UNCHANGED <<mode, running, students, tree>>

\* The end of delete_student and reset_all: _refresh_tree() is not inside a
\* try, so its TclError leaves the handler before clear_inputs().
GuiRefreshedAfterRemoval(new, r) ==
    /\ students' = new
    /\ tree' = r.rows
    /\ selection' = {}
    /\ msgs' = IF r.ok THEN <<>> ELSE <<Msg("Traceback", <<"TclError: item already exists">>)>>

GuiRemovalStored(new) == GuiRefreshedAfterRemoval(new, RefreshTree(new))

GuiResetAllTreeOnly(confirm) ==
    /\ mode = "gui" /\ running
    /\ written' = <<>>
    /\ call' = [op |-> "reset_all", args |-> <<confirm>>]
    /\ hits' = <<>> /\ top' = 0
    /\ IF confirm
       THEN tree' = <<>> /\ selection' = {} /\ msgs' = <<>> /\ UNCHANGED students
       ELSE msgs' = <<>> /\ UNCHANGED <<students, tree, selection>>
    /\ UNCHANGED <<mode, running>>

\* reset_all: the Reset All button; confirm is the answer to askyesno.
GuiResetAll(confirm) ==
    /\ mode = "gui" /\ running
    /\ written' = <<>>
    /\ call' = [op |-> "reset_all", args |-> <<confirm>>]
    /\ hits' = <<>> /\ top' = 0
    /\ IF confirm
       THEN GuiRemovalStored(<<>>)
       ELSE msgs' = <<>> /\ UNCHANGED <<students, tree, selection>>
    /\ UNCHANGED <<mode, running>>
GuiDeleteUnconfirmed(confirm, idx) ==
    /\ written' = <<>>
    /\ call' = [op |-> "delete_student",
                args |-> IF selection = {} THEN <<>> ELSE <<confirm, FirstSelected>>]
    /\ hits' = <<>> /\ top' = 0
    /\ IF selection = {}
       THEN /\ msgs' = <<Msg("Select Record", <<"Please select a record to delete.">>)>>
            /\ UNCHANGED <<students, tree, selection>>
       ELSE IF idx = 0
       THEN msgs' = <<>> /\ UNCHANGED <<students, tree, selection>>
       ELSE GuiRemovalStored(Removed(students, idx))
    /\ UNCHANGED <<mode, running>>

GuiDelete(confirm, idx) ==
    /\ written' = <<>>
    /\ call' = [op |-> "delete_student",
                args |-> IF selection = {} THEN <<>> ELSE <<confirm, FirstSelected>>]
    /\ hits' = <<>> /\ top' = 0
    /\ IF selection = {}
       THEN /\ msgs' = <<Msg("Select Record", <<"Please select a record to delete.">>)>>
            /\ UNCHANGED <<students, tree, selection>>
       ELSE IF idx = 0 \/ ~confirm
       THEN msgs' = <<>> /\ UNCHANGED <<students, tree, selection>>
       ELSE GuiRemovalStored(Removed(students, idx))
    /\ UNCHANGED <<mode, running>>

\* delete_student: the Delete button; confirm is the answer to askyesno.
GuiDeleteStudent(confirm) ==
    /\ mode = "gui" /\ running
    /\ GuiDelete(confirm, IF selection = {} THEN 0 ELSE FindIndex(students, FirstSelected))

\* The selection_add loop of search_student over the hits h: selection_add of
\* an iid that is not in the tree raises TclError, outside any try.
GuiSearchHits(raw, query, h) ==
    /\ written' = <<>>
    /\ call' = [op |-> "search_student", args |-> raw]
    /\ hits' = h /\ top' = 0
    /\ IF h = <<>>
       THEN /\ msgs' = <<Msg("Search", <<"No matches", query>>)>>
            /\ selection' = {}
       ELSE IF \E k \in 1..Len(h) : h[k] \notin TreeIids
       THEN /\ msgs' = <<Msg("Traceback", <<"TclError: item not found">>)>>
            /\ selection' = {h[i] : i \in {i \in 1..Len(h) :
                                  \A j \in 1..i : h[j] \in TreeIids}}
       ELSE /\ msgs' = <<>>
            /\ selection' = {h[i] : i \in 1..Len(h)}
    /\ UNCHANGED <<mode, running, students, tree>>

GuiSearch(raw, query, q) ==
    IF query = <<>>
    THEN /\ written' = <<>>
         /\ call' = [op |-> "search_student", args |-> raw]
         /\ msgs' = <<Msg("Search", <<"Type a Roll No. or Name">>)>>
         /\ hits' = <<>> /\ top' = 0
         /\ UNCHANGED <<mode, running, students, tree, selection>>
    ELSE GuiSearchHits(raw, query, RollsOf(MatchingStudents(q, students)))

\* query = self.roll_var.get().strip() or self.name_var.get().strip(), and
\* q = query.lower(), for every input (computed once).
GuiQueries ==
    {[raw |-> i,
      query |-> IF Strip(i[1]) # <<>> THEN Strip(i[1]) ELSE Strip(i[2]),
      q |-> Lower(IF Strip(i[1]) # <<>> THEN Strip(i[1]) ELSE Strip(i[2]))] : i \in SearchInputs}

\* search_student: the Search button; s.raw is <<roll box, name box>>.
GuiSearchStudent(s) ==
    /\ mode = "gui" /\ running
    /\ GuiSearch(s.raw, s.query, s.q)

GuiTopper(t) ==
    /\ top' = t
    /\ msgs' = <<Msg("Topper", <<"Topper", students[t].roll, students[t].name,
                                 Average(students[t]), Grade(students[t])>>)>>
               \o (IF students[t].roll \in TreeIids THEN <<>>
                   ELSE <<Msg("Traceback", <<"TclError: item not found">>)>>)
    /\ selection' = IF students[t].roll \in TreeIids THEN {students[t].roll} ELSE selection

GuiShowTopperSorting ==
    /\ mode = "gui" /\ running
    /\ written' = <<>>
    /\ call' = [op |-> "show_topper", args |-> <<>>]
    /\ hits' = <<>>
    /\ IF students = <<>>
       THEN /\ msgs' = <<Msg("Topper", <<"No records available.">>)>>
            /\ top' = 0
            /\ UNCHANGED <<selection, students>>
       ELSE /\ GuiTopper(TopperIndex(students))
            /\ students' = <<students[TopperIndex(students)]>>
                              \o Removed(students, TopperIndex(students))
    /\ UNCHANGED <<mode, running, tree>>

\* show_topper: the Show Topper button.
GuiShowTopper ==
    /\ mode = "gui" /\ running
    /\ written' = <<>>
    /\ call' = [op |-> "show_topper", args |-> <<>>]
    /\ hits' = <<>>
    /\ IF students = <<>>
       THEN /\ msgs' = <<Msg("Topper", <<"No records available.">>)>>
            /\ top' = 0
            /\ UNCHANGED selection
       ELSE GuiTopper(TopperIndex(students))
    /\ UNCHANGED <<mode, running, students, tree>>

(***************************************************************************)
(* CSV files.  A file is the list of rows csv.reader yields, the header    *)
(* first; a row is its list of fields.                                     *)
(***************************************************************************)
Header == <<"roll", "name", "marks1", "marks2", "marks3", "total", "average", "grade">>

ShortHeader == <<"roll", "name", "marks1", "marks2", "marks3">>

CsvRow(roll, name, m) == <<roll, name, m[1], m[2], m[3], <<"0">>, <<"0">>, <<"F">>>>

RowA == CsvRow(<<" ", "a">>, <<"B", "o">>, <<<<"5", "0">>, <<"1", "0", "0">>, <<"0">>>>)

RowB == CsvRow(<<"A", "b">>, <<"a", "b">>, <<<<"1", "0", "0">>, <<" ", "9", "0">>, <<"1", "0", "0">>>>)

RowNoRoll == CsvRow(<<" ">>, <<"B", "o">>, <<<<"0">>, <<"0">>, <<"0">>>>)

RowShort == <<<<"b">>, <<"B", "o">>, <<"5", "0">>, <<"1", "0", "0">>, <<"0">>>>

RowFew == <<<<"b">>, <<"B", "o">>, <<"5", "0">>, <<"1", "0", "0">>>>

RowRange == CsvRow(<<"b">>, <<"B", "o">>, <<<<"0">>, <<"1", "0", "1">>, <<"0">>>>)

RowNonInt == CsvRow(<<"b">>, <<"B", "o">>, <<<<"1", "0", "1">>, <<"x">>, <<"0">>>>)

AcceptedRows == {RowA, RowB}

RejectedRows == {RowShort, RowFew, RowRange, RowNonInt}

RowSeqs(n) == UNION {[1..k -> AcceptedRows] : k \in 0..n}

Files ==
    {<<>>, <<ShortHeader>>, <<ShortHeader, RowA>>, <<Header, RowNoRoll>>}
    \cup {<<Header>> \o p : p \in RowSeqs(MaxRows)}
    \cup {<<Header>> \o p \o <<b>> : p \in RowSeqs(MaxRows - 1), b \in RejectedRows}
    \cup {<<Header, b, RowA>> : b \in {RowShort, RowNonInt} \cap {r \in RejectedRows : MaxRows >= 2}}

\* What a load finds: no file picked / no such file, a file that cannot be
\* read, or a file; own marks the file the previous call of this session wrote.
LoadSources ==
    {[found |-> FALSE, readable |-> FALSE, own |-> FALSE, file |-> <<>>],
     [found |-> TRUE, readable |-> FALSE, own |-> FALSE, file |-> <<>>]}
    \cup {[found |-> TRUE, readable |-> TRUE, own |-> FALSE, file |-> f] : f \in Files}

\* The checks load_from_csv makes on one data row, in its order.
RowMarksError(p1, p2, p3) ==
    IF ~p1.ok \/ ~p2.ok \/ ~p3.ok THEN "marks must be integers."
    ELSE IF \E m \in {p1.val, p2.val, p3.val} : m < 0 \/ m > 100
    THEN "marks out of range 0-100."
    ELSE ""

RowError(row) ==
    IF Len(row) < 8 THEN "is malformed"
    ELSE RowMarksError(IntOf(row[3]), IntOf(row[4]), IntOf(row[5]))

\* The first data row (1 is the first row after the header) that
\* load_from_csv rejects, 0 when it accepts them all.
FirstRejected(rows) ==
    IF \E k \in 1..Len(rows) : RowError(rows[k]) # ""
    THEN CHOOSE k \in 1..Len(rows) :
            /\ RowError(rows[k]) # ""
            /\ \A j \in 1..(k - 1) : RowError(rows[j]) = ""
    ELSE 0

GuiLoadedStudent(row) ==
    Student(Strip(row[1]), Strip(row[2]),
            <<IntOf(row[3]).val, IntOf(row[4]).val, IntOf(row[5]).val>>)

GuiRowsRead(rows, k) ==
    IF k # 0
    THEN [err |-> IF RowError(rows[k]) = "is malformed"
                  THEN <<"Row is malformed", k + 1, rows[k]>>
                  ELSE <<RowError(rows[k]), k + 1>>,
          loaded |-> <<>>]
    ELSE [err |-> <<>>, loaded |-> [i \in 1..Len(rows) |-> GuiLoadedStudent(rows[i])]]

\* The with-block of load_from_csv: the ValueError it raises (err) or the
\* list it builds (loaded).
GuiRead(file) ==
    IF file = <<>> \/ Len(file[1]) < 8
    THEN [err |-> <<"Unexpected CSV format. Expected 8 columns.">>, loaded |-> <<>>]
    ELSE GuiRowsRead(Tail(file), FirstRejected(Tail(file)))

\* The end of load_from_csv: self.students = loaded, then _refresh_tree(),
\* clear_inputs() and the Loaded box, all inside the try.
GuiLoadRefreshed(new, r) ==
    /\ students' = new
    /\ tree' = r.rows
    /\ selection' = {}
    /\ msgs' = IF r.ok
               THEN <<Msg("Loaded", <<"Loaded records", Len(new)>>)>>
               ELSE <<Msg("Load Error", <<"TclError: item already exists">>)>>

GuiLoadStored(new) == GuiLoadRefreshed(new, RefreshTree(new))

GuiLoad(src, read) ==
    /\ written' = <<>>
    /\ call' = [op |-> "load_from_csv", args |-> <<src.found, src.own, src.file>>]
    /\ hits' = <<>> /\ top' = 0
    /\ IF ~src.found
       THEN msgs' = <<>> /\ UNCHANGED <<students, tree, selection>>
       ELSE IF ~src.readable
       THEN /\ msgs' = <<Msg("Load Error", <<"OSError">>)>>
            /\ UNCHANGED <<students, tree, selection>>
       ELSE IF read.err # <<>>
       THEN /\ msgs' = <<Msg("Load Error", read.err)>>
            /\ UNCHANGED <<students, tree, selection>>
       ELSE GuiLoadStored(read.loaded)
    /\ UNCHANGED <<mode, running>>

\* Every source with what the with-block makes of its file (a function of the
\* file alone, computed once).
GuiReads == {[src |-> s, read |-> GuiRead(s.file)] : s \in LoadSources}

\* load_from_csv: the Load CSV button; read is GuiRead(src.file).
GuiLoadFromCsv(src, read) ==
    /\ mode = "gui" /\ running
    /\ GuiLoad(src, read)

(***************************************************************************)
(* Writing files: the CSV of the list and the report of one Student.       *)
(***************************************************************************)
RECURSIVE StrOfNat(_)
StrOfNat(n) ==
    IF n < 10 THEN <<Digits[n + 1]>>
    ELSE Append(StrOfNat(n \div 10), Digits[(n % 10) + 1])

StrOfIntZeroEmpty(n) ==
    IF n = 0 THEN <<>>
    ELSE IF n < 0 THEN <<"-">> \o StrOfNat(0 - n) ELSE StrOfNat(n)

\* str(n) of an int, as csv.writer writes it.
StrOfInt(n) == IF n < 0 THEN <<"-">> \o StrOfNat(0 - n) ELSE StrOfNat(n)

\* The digits after the point of a float with h hundredths (0 <= h < 100):
\* repr() keeps the shortest text, "0" for none.
FractionText(h) ==
    IF h % 10 = 0 THEN <<Digits[(h \div 10) + 1]>>
    ELSE <<Digits[(h \div 10) + 1], Digits[(h % 10) + 1]>>

\* str(x) of the float average(), x given in hundredths.
StrOfAverage(h) ==
    IF h < 0 THEN <<"-">> \o StrOfNat((0 - h) \div 100) \o <<".">> \o FractionText((0 - h) % 100)
    ELSE StrOfNat(h \div 100) \o <<".">> \o FractionText(h % 100)

GradeText(g) == IF g = "A+" THEN <<"A", "+">> ELSE <<g>>

CliHeader == <<"roll", "name", "m1", "m2", "m3", "total", "average", "grade">>

\* writer.writerow([st.roll, st.name, marks..., total(), average(), grade()])
WrittenRow(st) ==
    <<st.roll, st.name, StrOfInt(st.marks[1]), StrOfInt(st.marks[2]),
      StrOfInt(st.marks[3]), StrOfInt(Total(st)), StrOfAverage(Average(st)),
      GradeText(Grade(st))>>

WrittenCsvSkippingFirst(header, studs) ==
    <<header>> \o [i \in 1..(Len(studs) - 1) |-> WrittenRow(studs[i + 1])]

\* The rows save_to_csv / save_csv write: the header, then one row per Student.
WrittenCsv(header, studs) == <<header>> \o [i \in 1..Len(studs) |-> WrittenRow(studs[i])]

\* What open(path, "w") does.
OpenOutcomes == {"ok", "PermissionError", "OSError"}

\* save_to_csv: the Save CSV button; picked is whether the dialog gave a path.
GuiSaveToCsv(picked, opened) ==
    /\ mode = "gui" /\ running
    /\ call' = [op |-> "save_to_csv",
                args |-> IF students = <<>> THEN <<>>
                         ELSE IF ~picked THEN <<FALSE>> ELSE <<TRUE, opened>>]
    /\ hits' = <<>> /\ top' = 0
    /\ IF students = <<>>
       THEN msgs' = <<Msg("Save CSV", <<"No records to save.">>)>> /\ written' = <<>>
       ELSE IF ~picked
       THEN msgs' = <<>> /\ written' = <<>>
       ELSE IF opened = "PermissionError"
       THEN msgs' = <<Msg("Permission Denied", <<"Close the file">>)>> /\ written' = <<>>
       ELSE IF opened # "ok"
       THEN msgs' = <<Msg("Save Error", <<opened>>)>> /\ written' = <<>>
       ELSE /\ written' = WrittenCsv(Header, students)
            /\ msgs' = <<Msg("Saved", <<"Saved records", Len(students)>>)>>
    /\ UNCHANGED <<mode, running, students, tree, selection>>

RemarkWithoutD(g) ==
    IF g \in {"A+", "A"} THEN "Excellent"
    ELSE IF g = "B" THEN "Good"
    ELSE IF g = "C" THEN "Average"
    ELSE "Fail"

\* The remark export_report derives from the grade.
Remark(g) ==
    IF g \in {"A+", "A"} THEN "Excellent"
    ELSE IF g = "B" THEN "Good"
    ELSE IF g = "C" THEN "Average"
    ELSE IF g = "D" THEN "Needs Improvement"
    ELSE "Fail"

\* The lines export_report / export_txt write, each its label and value.
ReportLines(st) ==
    << <<"=== Student Report Card ===">>,
       <<"Roll No.:", st.roll>>,
       <<"Name    :", st.name>>,
       <<"Marks   :", st.marks>>,
       <<"Total   :", Total(st)>>,
       <<"Average :", Average(st)>>,
       <<"Grade   :", Grade(st)>> >>

RemarkLine(st) == <<"Remark  :", Remark(Grade(st))>>

GuiReportOf(idx, picked, opened) ==
    IF idx = 0 \/ ~picked
    THEN msgs' = <<>> /\ written' = <<>>
    ELSE IF opened # "ok"
    THEN msgs' = <<Msg("Export Error", <<opened>>)>> /\ written' = <<>>
    ELSE /\ written' = Append(ReportLines(students[idx]), RemarkLine(students[idx]))
         /\ msgs' = <<Msg("Exported", <<"Report saved">>)>>

\* export_report: the Export Report button, for the selected row.
GuiExportReport(picked, opened) ==
    /\ mode = "gui" /\ running
    /\ call' = [op |-> "export_report",
                args |-> IF selection = {} THEN <<>>
                         ELSE IF ~picked THEN <<FirstSelected, FALSE>>
                         ELSE <<FirstSelected, TRUE, opened>>]
    /\ hits' = <<>> /\ top' = 0
    /\ IF selection = {}
       THEN /\ msgs' = <<Msg("Export", <<"Please select a student record first.">>)>>
            /\ written' = <<>>
       ELSE GuiReportOf(FindIndex(students, FirstSelected), picked, opened)
    /\ UNCHANGED <<mode, running, students, tree, selection>>

(***************************************************************************)
(* ConsoleTracker (CLI): run() reads a command, then the line the command  *)
(* asks for, and calls the method.                                         *)
(***************************************************************************)
\* The first word of s (s starts with no whitespace).
RECURSIVE FirstWord(_)
FirstWord(s) ==
    IF s = <<>> \/ IsSpace(Head(s)) THEN <<>> ELSE <<Head(s)>> \o FirstWord(Tail(s))

\* str.split(): the words between runs of whitespace.
RECURSIVE SplitWords(_)
SplitWords(s) ==
    IF LStrip(s) = <<>> THEN <<>>
    ELSE <<FirstWord(LStrip(s))>>
         \o SplitWords(SubSeq(LStrip(s), Len(FirstWord(LStrip(s))) + 1, Len(LStrip(s))))

RECURSIVE JoinWords(_)
JoinWords(ws) ==
    IF ws = <<>> THEN <<>>
    ELSE IF Len(ws) = 1 THEN ws[1]
    ELSE ws[1] \o <<" ">> \o JoinWords(Tail(ws))

\* The lines typed after "add" / "update".
GoodAddLines ==
    {JoinWords(<<r, nm[1], nm[2][1], nm[2][2], nm[2][3]>>) :
        r \in {<<"a">>, <<"A", "b">>, <<"b">>},
        nm \in {<<<<"B", "o">>, <<<<"5", "0">>, <<"1", "0", "0">>, <<"0">>>>>>,
                <<<<"a", "b">>, <<<<"1", "0", "0">>, <<"9", "0">>, <<"1", "0", "0">>>>>>}}

BadAddLines ==
    {JoinWords(<<<<"a">>, <<"B", "o">>, <<"5", "0">>, <<"1", "0", "0">>>>),
     JoinWords(<<<<"a">>, <<"a", "b">>, <<"1", "0", "1">>, <<"0">>, <<"x">>>>),
     JoinWords(<<<<"A", "b">>, <<"a", "b">>, <<"0">>, <<"1", "0", "1">>, <<"0">>>>),
     JoinWords(<<<<"a">>, <<"a", "b">>, <<"0">>, <<"5", "0">>, <<"-", "1">>>>)}

AddLines == GoodAddLines \cup BadAddLines

\* Every line with its words (a function of the line alone, computed once).
CliEntries == {[raw |-> l, parts |-> SplitWords(l)] : l \in AddLines}

\* ConsoleTracker.add_or_update(roll, name, m1, m2, m3), called with ints.
CliStore(roll, name, m1, m2, m3, idx) ==
    IF \E m \in {m1, m2, m3} : ~(0 <= m /\ m <= 100)
    THEN /\ msgs' = <<Msg("Error:", <<"Marks must be 0-100">>)>>
         /\ UNCHANGED students
    ELSE /\ students' = Upserted(students, idx, roll, name, <<m1, m2, m3>>)
         /\ msgs' = <<Msg(IF idx = 0 THEN "Added." ELSE "Updated.", <<>>)>>

CliParsed(roll, name, p1, p2, p3) ==
    IF ~p1.ok \/ ~p2.ok \/ ~p3.ok
    THEN /\ msgs' = <<Msg("Error:", <<"invalid literal for int()">>)>>
         /\ UNCHANGED students
    ELSE CliStore(roll, name, p1.val, p2.val, p3.val, FindIndex(students, roll))

\* The "add" / "update" branch of run(); parts is the typed line, split.
CliAddOrUpdate(raw, parts) ==
    /\ mode = "cli" /\ running
    /\ (Len(parts) >= 5 /\ IntOf(parts[3]).ok /\ IntOf(parts[4]).ok /\ IntOf(parts[5]).ok
          /\ \A k \in 3..5 : 0 <= IntOf(parts[k]).val /\ IntOf(parts[k]).val <= 100
          /\ FindIndex(students, parts[1]) = 0)
       => Len(students) < MaxStudents
    /\ written' = <<>>
    /\ call' = [op |-> "add_or_update", args |-> raw]
    /\ hits' = <<>> /\ top' = 0
    /\ IF Len(parts) < 5
       THEN /\ msgs' = <<Msg("Need 5 parts.", <<>>)>>
            /\ UNCHANGED students
       ELSE CliParsed(parts[1], parts[2], IntOf(parts[3]), IntOf(parts[4]), IntOf(parts[5]))
    /\ UNCHANGED <<mode, running, tree, selection>>

CliDeleteAt(idx) ==
    IF idx = 0
    THEN /\ msgs' = <<Msg("Roll not found.", <<>>)>>
         /\ UNCHANGED students
    ELSE /\ students' = Removed(students, idx)
         /\ msgs' = <<Msg("Deleted.", <<>>)>>

\* The "del" branch of run() and ConsoleTracker.delete; line is as typed.
CliDelete(line) ==
    /\ mode = "cli" /\ running
    /\ written' = <<>>
    /\ call' = [op |-> "delete", args |-> line]
    /\ hits' = <<>> /\ top' = 0
    /\ CliDeleteAt(FindIndex(students, Strip(line)))
    /\ UNCHANGED <<mode, running, tree, selection>>

CliSearchHits(h) ==
    /\ hits' = h
    /\ msgs' = IF h = <<>>
               THEN <<Msg("(no rows)", <<>>), Msg("No matches.", <<>>)>>
               ELSE <<Msg("table", <<"rows", Len(h)>>)>>

\* q = input().strip(), then q.lower(), for every line (computed once).
CliQueries == {[raw |-> l, q |-> Lower(Strip(l))] : l \in QueryTexts}

\* The "search" branch of run() and ConsoleTracker.search; q is the typed
\* line, stripped and lower-cased.
CliSearch(raw, q) ==
    /\ mode = "cli" /\ running
    /\ written' = <<>>
    /\ call' = [op |-> "search", args |-> raw]
    /\ top' = 0
    /\ CliSearchHits(MatchingStudents(q, students))
    /\ UNCHANGED <<mode, running, students, tree, selection>>

CliTopperAt(t) ==
    /\ top' = t
    /\ msgs' = <<Msg("Topper", <<"Topper", students[t].roll, students[t].name,
                                 Average(students[t]), Grade(students[t])>>)>>

CliTopperUnguarded ==
    /\ mode = "cli" /\ running
    /\ written' = <<>>
    /\ call' = [op |-> "topper", args |-> <<>>]
    /\ hits' = <<>>
    /\ IF students = <<>>
       THEN /\ msgs' = <<Msg("Traceback", <<"ValueError">>)>>
            /\ top' = 0
            /\ running' = FALSE
       ELSE CliTopperAt(TopperIndex(students)) /\ UNCHANGED running
    /\ UNCHANGED <<mode, students, tree, selection>>

\* ConsoleTracker.topper
CliTopper ==
    /\ mode = "cli" /\ running
    /\ written' = <<>>
    /\ call' = [op |-> "topper", args |-> <<>>]
    /\ hits' = <<>>
    /\ IF students = <<>>
       THEN /\ msgs' = <<Msg("No records.", <<>>)>>
            /\ top' = 0
       ELSE CliTopperAt(TopperIndex(students))
    /\ UNCHANGED <<mode, running, students, tree, selection>>

\* What the loop of load_csv does with one row: IndexError for fewer than 5
\* fields, ValueError for a mark that int() rejects; no other check.
CliRowError(row) ==
    IF Len(row) < 5 THEN "IndexError"
    ELSE IF ~IntOf(row[3]).ok \/ ~IntOf(row[4]).ok \/ ~IntOf(row[5]).ok THEN "ValueError"
    ELSE ""

CliLoadedStudent(row) ==
    Student(row[1], row[2], <<IntOf(row[3]).val, IntOf(row[4]).val, IntOf(row[5]).val>>)

\* The with-block of load_csv: the exception that leaves it (err) or the list
\* it builds (loaded).  next(r, None) skips the first row, whatever it is.
CliRead(file) ==
    IF \E k \in 2..Len(file) : CliRowError(file[k]) # ""
    THEN [err |-> CliRowError(file[CHOOSE k \in 2..Len(file) :
                                     /\ CliRowError(file[k]) # ""
                                     /\ \A j \in 2..(k - 1) : CliRowError(file[j]) = ""]),
          loaded |-> <<>>]
    ELSE [err |-> "", loaded |-> [i \in 1..(Len(file) - 1) |-> CliLoadedStudent(file[i + 1])]]

CliReads == {[src |-> s, read |-> CliRead(s.file)] : s \in LoadSources}

\* The "load" branch of run() and ConsoleTracker.load_csv; read is
\* CliRead(src.file).  Only FileNotFoundError is caught: any other exception
\* leaves run() and ends the process.
CliLoadCsv(src, read) ==
    /\ mode = "cli" /\ running
    /\ written' = <<>>
    /\ call' = [op |-> "load_csv", args |-> <<src.found, src.own, src.file>>]
    /\ hits' = <<>> /\ top' = 0
    /\ IF ~src.found
       THEN /\ msgs' = <<Msg("CSV not found.", <<>>)>>
            /\ UNCHANGED <<students, running>>
       ELSE IF ~src.readable
       THEN /\ msgs' = <<Msg("Traceback", <<"OSError">>)>>
            /\ running' = FALSE
            /\ UNCHANGED students
       ELSE IF read.err # ""
       THEN /\ msgs' = <<Msg("Traceback", <<read.err>>)>>
            /\ running' = FALSE
            /\ UNCHANGED students
       ELSE /\ students' = read.loaded
            /\ msgs' = <<Msg("Loaded", <<"Loaded records", Len(read.loaded)>>)>>
            /\ UNCHANGED running
    /\ UNCHANGED <<mode, tree, selection>>

\* The "save" branch of run() and ConsoleTracker.save_csv: no exception of
\* open() is caught.
CliSaveCsv(opened) ==
    /\ mode = "cli" /\ running
    /\ call' = [op |-> "save_csv", args |-> <<opened>>]
    /\ hits' = <<>> /\ top' = 0
    /\ IF opened # "ok"
       THEN /\ msgs' = <<Msg("Traceback", <<opened>>)>>
            /\ written' = <<>>
            /\ running' = FALSE
       ELSE /\ written' = WrittenCsv(CliHeader, students)
            /\ msgs' = <<Msg("Saved to", <<>>)>>
            /\ UNCHANGED running
    /\ UNCHANGED <<mode, students, tree, selection>>

CliReportOf(idx, opened) ==
    IF idx = 0
    THEN msgs' = <<Msg("Roll not found.", <<>>)>> /\ written' = <<>> /\ UNCHANGED running
    ELSE IF opened # "ok"
    THEN msgs' = <<Msg("Traceback", <<opened>>)>> /\ written' = <<>> /\ running' = FALSE
    ELSE /\ written' = ReportLines(students[idx])
         /\ msgs' = <<Msg("Exported to", <<>>)>>
         /\ UNCHANGED running

\* The "report" branch of run() and ConsoleTracker.export_txt.
CliExportTxt(line, opened) ==
    /\ mode = "cli" /\ running
    /\ call' = [op |-> "export_txt",
                args |-> IF FindIndex(students, Strip(line)) = 0
                         THEN <<line>> ELSE <<line, opened>>]
    /\ hits' = <<>> /\ top' = 0
    /\ CliReportOf(FindIndex(students, Strip(line)), opened)
    /\ UNCHANGED <<mode, students, tree, selection>>

\* The file the previous call wrote, when it was the CSV: what a load that
\* follows the save reads.
SavedSource == [found |-> TRUE, readable |-> TRUE, own |-> TRUE, file |-> written]

GuiSavedReads ==
    IF call.op = "save_to_csv" /\ written # <<>>
    THEN {[src |-> SavedSource, read |-> GuiRead(written)]}
    ELSE {}

CliSavedReads ==
    IF call.op = "save_csv" /\ written # <<>>
    THEN {[src |-> SavedSource, read |-> CliRead(written)]}
    ELSE {}

\* "quit" / "exit": the loop of run() ends.
CliQuit ==
    /\ mode = "cli" /\ running
    /\ running' = FALSE
    /\ written' = <<>>
    /\ call' = [op |-> "quit", args |-> <<>>]
    /\ msgs' = <<>> /\ hits' = <<>> /\ top' = 0
    /\ UNCHANGED <<mode, students, tree, selection>>

Init ==
    /\ mode \in {"gui", "cli"}
    /\ running = TRUE
    /\ students = <<>>
    /\ tree = <<>>
    /\ selection = {}
    /\ call = NoCall
    /\ msgs = <<>>
    /\ hits = <<>>
    /\ top = 0
    /\ written = <<>>

Next ==
    \/ \E e \in GuiEntries : GuiAddOrUpdateStudent(e)
    \/ \E i \in 1..MaxStudents + MaxRows : GuiSelectRecord(i)
    \/ \E c \in BOOLEAN : GuiResetAll(c)
    \/ \E c \in BOOLEAN : GuiDeleteStudent(c)
    \/ \E s \in GuiQueries : GuiSearchStudent(s)
    \/ GuiShowTopper
    \/ \E r \in GuiReads : GuiLoadFromCsv(r.src, r.read)
    \/ \E e \in CliEntries : CliAddOrUpdate(e.raw, e.parts)
    \/ \E l \in RollTexts : CliDelete(l)
    \/ \E s \in CliQueries : CliSearch(s.raw, s.q)
    \/ CliTopper
    \/ \E r \in CliReads : CliLoadCsv(r.src, r.read)
    \/ CliQuit
    \/ \E p \in BOOLEAN, o \in OpenOutcomes : GuiSaveToCsv(p, o)
    \/ \E p \in BOOLEAN, o \in OpenOutcomes : GuiExportReport(p, o)
    \/ \E r \in GuiSavedReads : GuiLoadFromCsv(r.src, r.read)
    \/ \E o \in OpenOutcomes : CliSaveCsv(o)
    \/ \E l \in RollTexts, o \in OpenOutcomes : CliExportTxt(l, o)
    \/ \E r \in CliSavedReads : CliLoadCsv(r.src, r.read)

Spec == Init /\ [][Next]_vars

(***************************************************************************)
(* Properties.  An operation is recognised by `call`, its outcome by       *)
(* `msgs`, `hits` and `top`; what the user gave is read back from          *)
(* call.args.                                                              *)
(***************************************************************************)
IsUpsert(c) == c.op \in {"add_or_update_student", "add_or_update"}

\* The integers the three mark texts of an upsert denote, when they all do.
GivenMarkTexts(c) ==
    IF c.op = "add_or_update_student" THEN c.args[3]
    ELSE SubSeq(SplitWords(c.args), 3, 5)

GivenValid(c) ==
    /\ IF c.op = "add_or_update_student"
       THEN Strip(c.args[1]) # <<>> /\ Strip(c.args[2]) # <<>>
       ELSE Len(SplitWords(c.args)) >= 5
    /\ \A k \in 1..3 :
          /\ IntOf(GivenMarkTexts(c)[k]).ok
          /\ IntOf(GivenMarkTexts(c)[k]).val \in 0..100

GivenRoll(c) ==
    IF c.op = "add_or_update_student" THEN Strip(c.args[1]) ELSE SplitWords(c.args)[1]

GivenName(c) ==
    IF c.op = "add_or_update_student" THEN Strip(c.args[2]) ELSE SplitWords(c.args)[2]

GivenRecord(c) ==
    [roll |-> GivenRoll(c), name |-> GivenName(c),
     marks |-> [k \in 1..3 |-> IntOf(GivenMarkTexts(c)[k]).val]]

HasRoll(studs, roll) == \E i \in 1..Len(studs) : studs[i].roll = roll

ReportsInsert(m) == m # <<>> /\ m[1][1] \in {"Added", "Added."}

ReportsUpdate(m) == m # <<>> /\ m[1][1] \in {"Updated", "Updated."}

IsValidationError(m) ==
    /\ m # <<>>
    /\ \/ m[1][1] = "Need 5 parts."
       \/ m[1][1] = "Error:"
       \/ /\ m[1][1] = "Input Error"
          /\ m[1][2][1] \in {"Roll number cannot be empty.", "Name cannot be empty.",
                             "Marks must be integers (0-100).",
                             "Marks must be between 0 and 100."}

\* C1: after any sequence of upsert, delete, reset and import operations no two
\* Records of the store have the same roll.
C1_UniqueRolls ==
    \A i, j \in 1..Len(students) : students[i].roll = students[j].roll => i = j

\* C2: after any sequence of upsert, delete, reset and import operations every
\* Record of the store has exactly 3 marks, each an integer in 0..100 (import
\* range-checks marks as parse_marks does).
C2_MarksInRange ==
    \A i \in 1..Len(students) :
        /\ Len(students[i].marks) = 3
        /\ \A k \in 1..3 : students[i].marks[k] \in 0..100

\* C3: an upsert with valid input appends the Record (roll, name, marks) at the
\* end when no Record has that roll; otherwise a Record with that roll stays at
\* its index with exactly the given name and marks (in input order); every other
\* Record keeps its fields and its index.
C3_UpsertAppendsOrReplaces ==
    [][(IsUpsert(call') /\ GivenValid(call')) =>
          IF ~HasRoll(students, GivenRoll(call'))
          THEN students' = Append(students, GivenRecord(call'))
          ELSE \E i \in 1..Len(students) :
                  /\ students[i].roll = GivenRoll(call')
                  /\ Len(students') = Len(students)
                  /\ students'[i] = GivenRecord(call')
                  /\ \A j \in 1..Len(students) : j # i => students'[j] = students[j]]_vars

\* C3 witness: an update that reported Updated for the first of two Records,
\* which is still first and now holds the given name and marks.
C3_UpdatedInPlace ==
    /\ IsUpsert(call) /\ ReportsUpdate(msgs)
    /\ Len(students) = 2
    /\ students[1] = GivenRecord(call)
    /\ students[2].roll # students[1].roll

\* C4: a successful upsert reports an insert (Added) exactly when no Record
\* with that roll was in the store just before the call, and an update
\* (Updated) exactly when one was.
C4_ReportsInsertOrUpdate ==
    [][(IsUpsert(call') /\ (ReportsInsert(msgs') \/ ReportsUpdate(msgs'))) =>
          /\ ReportsInsert(msgs') <=> ~HasRoll(students, GivenRoll(call'))
          /\ ReportsUpdate(msgs') <=> HasRoll(students, GivenRoll(call'))]_vars

\* C4 witness: an insert was reported for a second Record, after the first.
C4_AddedSecond ==
    /\ IsUpsert(call) /\ ReportsInsert(msgs)
    /\ Len(students) = 2
    /\ students[2].roll = GivenRoll(call)

\* C5: an upsert rejected with a validation error (empty roll, empty name, a
\* mark that is no integer, a mark outside 0..100) leaves the store exactly as
\* it was; input that is not valid is always rejected so.
C5_RejectedUpsertKeepsStore ==
    [][(IsUpsert(call') /\ (~GivenValid(call') \/ IsValidationError(msgs'))) =>
          /\ students' = students
          /\ IsValidationError(msgs')
          /\ ~GivenValid(call')]_vars

\* C5 witness: an upsert was rejected while the store held Records.
C5_RejectedOnPopulatedStore ==
    /\ IsUpsert(call) /\ IsValidationError(msgs)
    /\ Len(students) = 2

IsDeleteCall(c) == c.op \in {"delete_student", "delete"}

\* The roll a delete was asked to remove (GUI: the selected row, when one is
\* selected and the confirmation was given).
DeletedRoll(c) == IF c.op = "delete" THEN Strip(c.args) ELSE c.args[2]

DeleteConfirmed(c) == c.op = "delete" \/ (c.args # <<>> /\ c.args[1])

\* C6: after delete(roll) of a roll that is in the store a lookup of that roll
\* yields NotFound; delete(roll) of a roll that is not in the store yields
\* NotFound and leaves the store unchanged.
C6_DeleteThenNotFound ==
    [][(IsDeleteCall(call') /\ DeleteConfirmed(call')) =>
          IF HasRoll(students, DeletedRoll(call'))
          THEN FindIndex(students', DeletedRoll(call')) = 0
          ELSE /\ students' = students
               /\ msgs' = <<Msg("Roll not found.", <<>>)>>]_vars

IsSearch(c) == c.op \in {"search_student", "search"}

\* The query of a search: the typed text, stripped.
QueryOf(c) ==
    IF c.op = "search" THEN Strip(c.args)
    ELSE IF Strip(c.args[1]) # <<>> THEN Strip(c.args[1]) ELSE Strip(c.args[2])

\* The outcome "no matches" of a search.
NoMatchOutcome(m) ==
    \/ Len(m) = 1 /\ m[1][1] = "Search" /\ m[1][2][1] = "No matches"
    \/ Len(m) = 2 /\ m[2][1] = "No matches."

\* C7: a search with an empty query signals "no query provided", an outcome
\* distinct from "no matches", and returns no match set, at every search entry
\* point.
C7_EmptyQueryIsNoQuery ==
    (IsSearch(call) /\ QueryOf(call) = <<>>) =>
        /\ hits = <<>>
        /\ ~NoMatchOutcome(msgs)

\* Two characters that are the same letter, whatever their case.
SameLetter(c, d) ==
    \/ c = d
    \/ \E p \in {<<"a", "A">>, <<"b", "B">>, <<"o", "O">>} : {c, d} = {p[1], p[2]}

\* q occurs in s at some offset, letters compared without case.
Occurs(q, s) ==
    \E off \in 0..(Len(s) - Len(q)) : \A k \in 1..Len(q) : SameLetter(q[k], s[off + k])

MatchIdx(q) ==
    {i \in 1..Len(students) : Occurs(q, students[i].roll) \/ Occurs(q, students[i].name)}

\* The k-th smallest element of the set of indices S.
KthOf(S, k) == CHOOSE i \in S : Cardinality({j \in S : j <= i}) = k

\* C8: for a non-empty query, search returns exactly the Records whose roll or
\* name contains the query as a substring, compared case-insensitively, in the
\* store's order: none omitted, added, reordered or duplicated.  (The GUI's
\* result is the list of their rolls.)
C8_SearchReturnsMatchesInOrder ==
    (IsSearch(call) /\ QueryOf(call) # <<>>) =>
        /\ Len(hits) = Cardinality(MatchIdx(QueryOf(call)))
        /\ \A k \in 1..Len(hits) :
              hits[k] = IF mode = "gui"
                        THEN students[KthOf(MatchIdx(QueryOf(call)), k)].roll
                        ELSE students[KthOf(MatchIdx(QueryOf(call)), k)]

\* C8 witness: a query typed in upper case matched some Records of the store
\* and not others.
C8_SomeButNotAllMatch ==
    /\ IsSearch(call)
    /\ QueryOf(call) # <<>> /\ Lower(QueryOf(call)) # QueryOf(call)
    /\ hits # <<>>
    /\ Len(hits) < Len(students)

IsTopper(c) == c.op \in {"show_topper", "topper"}

\* C9: on a non-empty store topper returns a Record whose average is the
\* maximum over all Records, the one with the smallest index among those that
\* attain it.
C9_TopperIsFirstMaximum ==
    (IsTopper(call) /\ running /\ students # <<>>) =>
        /\ top \in 1..Len(students)
        /\ \A j \in 1..Len(students) : Average(students[j]) <= Average(students[top])
        /\ \A j \in 1..(top - 1) : Average(students[j]) < Average(students[top])
        /\ msgs[1][2][2] = students[top].roll
        /\ msgs[1][2][3] = students[top].name

\* C9 witness: topper reported the first of two different Records that tie for
\* the maximum average.
C9_TieGoesToFirst ==
    /\ IsTopper(call)
    /\ Len(students) = 2
    /\ students[1] # students[2]
    /\ Average(students[1]) = Average(students[2])
    /\ top = 1

\* C10: topper on an empty store ends with the Empty outcome ("no records"),
\* selects no Record, fails in no other way and leaves the store empty.
C10_TopperOnEmptyStore ==
    [][(IsTopper(call') /\ students = <<>>) =>
          /\ students' = <<>>
          /\ top' = 0
          /\ running'
          /\ msgs' \in {<<Msg("Topper", <<"No records available.">>)>>,
                        <<Msg("No records.", <<>>)>>}]_vars

\* C10 witness: topper ran on the empty store, reported its outcome and
\* selected no Record.
C10_TopperRanOnEmptyStore ==
    /\ IsTopper(call)
    /\ students = <<>>
    /\ top = 0
    /\ msgs # <<>>


(***************************************************************************)
(* The Student class on its own: one Student per mark triple, and the      *)
(* columns total(), average() and grade() give for it (as _refresh_tree,   *)
(* save_to_csv and the reports read them).                                 *)
(***************************************************************************)
MinMark == 0

MaxMark == 100

Marks == MinMark..MaxMark

StudentInit ==
    /\ mode = "student"
    /\ running = TRUE
    /\ \E a \in Marks, b \in Marks, c \in Marks :
          students = <<Student(<<"a">>, <<"B", "o">>, <<a, b, c>>)>>
    /\ tree = <<>>
    /\ selection = {}
    /\ call = NoCall
    /\ msgs = <<>>
    /\ hits = <<>>
    /\ top = 0
    /\ written = <<>>

\* st.total(), st.average(), st.grade() of the Student, kept as its row.
StudentValues ==
    /\ mode = "student"
    /\ tree = <<>>
    /\ tree' = <<[iid |-> students[1].roll,
                 values |-> <<students[1].roll, students[1].name,
                              students[1].marks[1], students[1].marks[2],
                              students[1].marks[3], Total(students[1]),
                              Average(students[1]), Grade(students[1])>>]>>
    /\ written' = <<>>
    /\ call' = [op |-> "values", args |-> <<>>]
    /\ UNCHANGED <<mode, running, students, selection, msgs, hits, top>>

\* The report of the Student, as export_report (with the remark line) and
\* export_txt (without it) write it.
StudentReport(rich) ==
    /\ mode = "student"
    /\ written = <<>>
    /\ written' = IF rich THEN Append(ReportLines(students[1]), RemarkLine(students[1]))
                  ELSE ReportLines(students[1])
    /\ call' = [op |-> "report", args |-> <<rich>>]
    /\ UNCHANGED <<mode, running, students, tree, selection, msgs, hits, top>>

StudentNext == StudentValues

ReportNext == \E rich \in BOOLEAN : StudentReport(rich)

ReportSpec == StudentInit /\ [][ReportNext]_vars

StudentSpec == StudentInit /\ [][StudentNext]_vars

\* The grade the thresholds on the total give.
BandOfTotal(t) ==
    IF t >= 270 THEN "A+"
    ELSE IF t >= 240 THEN "A"
    ELSE IF t >= 210 THEN "B"
    ELSE IF t >= 180 THEN "C"
    ELSE IF t >= 150 THEN "D"
    ELSE "F"

\* C11: for every mark triple in [0,100]^3 total is the sum of the marks,
\* average (in hundredths) is total*100/3 rounded to the nearest integer, and
\* grade is A+ / A / B / C / D for an average of at least 90 / 80 / 70 / 60 /
\* 50 and F below; the same grade follows from the total with the thresholds
\* 270 / 240 / 210 / 180 / 150.
C11_TotalAverageGrade ==
    (mode = "student" /\ tree # <<>>) =>
        LET m == students[1].marks
            t == tree[1].values[6]
            a == tree[1].values[7]
            g == tree[1].values[8]
        IN  /\ t = m[1] + m[2] + m[3]
            /\ 3 * (2 * a - 1) <= 200 * t
            /\ 200 * t <= 3 * (2 * a + 1)
            /\ g = (IF a >= 9000 THEN "A+" ELSE IF a >= 8000 THEN "A"
                    ELSE IF a >= 7000 THEN "B" ELSE IF a >= 6000 THEN "C"
                    ELSE IF a >= 5000 THEN "D" ELSE "F")
            /\ g = BandOfTotal(t)

\* C11 witness: the values of a Student whose average is exactly 90, the
\* lowest A+.
C11_LowestAPlus ==
    /\ mode = "student" /\ tree # <<>>
    /\ tree[1].values[6] = 270
    /\ tree[1].values[7] = 9000
    /\ tree[1].values[8] = "A+"


IsLoad(c) == c.op \in {"load_from_csv", "load_csv"}

IsSave(c) == c.op \in {"save_to_csv", "save_csv"}

\* The call loaded the file the call before it had written.
LoadsOwnFile(c) == IsLoad(c) /\ c.args[1] /\ c.args[2]

\* The rows after the header of the file a load read.
DataRowsOf(c) == Tail(c.args[3])

ReportsLoaded(m) == m # <<>> /\ m[1][1] = "Loaded"

Trimmed(t) == t # <<>> /\ t[1] # " " /\ t[Len(t)] # " "

\* A store of valid Records only: trimmed non-empty roll and name, unique
\* rolls, three marks in 0..100.
ValidStore(studs) ==
    /\ \A i \in 1..Len(studs) :
          /\ Trimmed(studs[i].roll) /\ Trimmed(studs[i].name)
          /\ Len(studs[i].marks) = 3
          /\ \A k \in 1..3 : studs[i].marks[k] \in 0..100
    /\ \A i, j \in 1..Len(studs) : studs[i].roll = studs[j].roll => i = j

MalformedRow(row) ==
    \/ Len(row) < 8
    \/ \E k \in 3..5 : ~IntOf(row[k]).ok \/ IntOf(row[k]).val \notin 0..100

\* C13: an import whose input has a malformed row (fewer than 8 columns, a
\* non-integer mark, a mark outside 0..100) at any position leaves the live
\* store completely unchanged.
C13_MalformedImportKeepsStore ==
    [][(IsLoad(call') /\ call'.args[3] # <<>> /\ students # <<>>
          /\ \E k \in 1..Len(DataRowsOf(call')) : MalformedRow(DataRowsOf(call')[k])) =>
          students' = students]_vars


\* The store holds exactly the Records of the data rows, in file order.
HoldsRecordsOf(studs, rows) ==
    /\ Len(studs) = Len(rows)
    /\ \A i \in 1..Len(rows) :
          /\ Strip(studs[i].roll) = Strip(rows[i][1])
          /\ Strip(studs[i].name) = Strip(rows[i][2])
          /\ studs[i].marks = <<IntOf(rows[i][3]).val, IntOf(rows[i][4]).val,
                                IntOf(rows[i][5]).val>>

\* C14: every import call ends either reporting success, the live store
\* replaced by exactly the file's Records in file order, or reporting an error
\* (or nothing) with the live store identical to what it was before the call;
\* no call reports an error after the store has been replaced.
C14_ImportAllOrNothing ==
    [][IsLoad(call') =>
          \/ /\ ReportsLoaded(msgs')
             /\ HoldsRecordsOf(students', DataRowsOf(call'))
          \/ /\ ~ReportsLoaded(msgs')
             /\ students' = students]_vars


\* The first malformed data row of rows (1 is the row after the header), 0
\* when there is none.
FirstMalformed(rows) ==
    IF \E k \in 1..Len(rows) : MalformedRow(rows[k])
    THEN CHOOSE k \in 1..Len(rows) :
            MalformedRow(rows[k]) /\ \A j \in 1..(k - 1) : ~MalformedRow(rows[j])
    ELSE 0

\* The import read a file with a full header, did not succeed, and the first
\* failing data row of the file is one with fewer than 8 columns.
RejectsShortRow(c, m) ==
    /\ IsLoad(c) /\ c.args[3] # <<>> /\ Len(c.args[3][1]) >= 8
    /\ ~ReportsLoaded(m)
    /\ FirstMalformed(DataRowsOf(c)) # 0
    /\ Len(DataRowsOf(c)[FirstMalformed(DataRowsOf(c))]) < 8

\* C15: when import rejects a data row for having fewer than 8 columns, the
\* error names that row by its 1-based line position, the header being row 1
\* (the k-th data row is row k+1), and it is the first failing row of the file.
C15_ShortRowReportedByLine ==
    [][RejectsShortRow(call', msgs') =>
          /\ msgs' # <<>>
          /\ Len(msgs'[1][2]) = 3
          /\ msgs'[1][2][1] = "Row is malformed"
          /\ msgs'[1][2][2] = FirstMalformed(DataRowsOf(call')) + 1
          /\ msgs'[1][2][3] = DataRowsOf(call')[FirstMalformed(DataRowsOf(call'))]]_vars


\* The save got a path and opened the file.
SaveWentThrough(c) ==
    IF c.op = "save_csv" THEN c.args[1] = "ok"
    ELSE Len(c.args) = 2 /\ c.args[2] = "ok"

\* The hundredths a decimal text "i.f" or "i.ff" denotes.
HundredthsOf(t) ==
    LET dot == CHOOSE i \in 1..Len(t) : t[i] = "."
        frac == SubSeq(t, dot + 1, Len(t))
    IN  100 * DecVal(SubSeq(t, 1, dot - 1))
          + (IF Len(frac) = 1 THEN 10 * DecVal(frac) ELSE DecVal(frac))

\* The line is the Record's: roll, name, the three marks, then total, average
\* and grade as the marks give them.
LineOfRecord(line, st) ==
    /\ Len(line) = 8
    /\ line[1] = st.roll /\ line[2] = st.name
    /\ \A k \in 1..3 : IntOf(line[k + 2]) = [ok |-> TRUE, val |-> st.marks[k]]
    /\ IntOf(line[6]) = [ok |-> TRUE, val |-> st.marks[1] + st.marks[2] + st.marks[3]]
    /\ 3 * (2 * HundredthsOf(line[7]) - 1) <= 200 * (st.marks[1] + st.marks[2] + st.marks[3])
    /\ 200 * (st.marks[1] + st.marks[2] + st.marks[3]) <= 3 * (2 * HundredthsOf(line[7]) + 1)
    /\ line[8] = (IF BandOfTotal(st.marks[1] + st.marks[2] + st.marks[3]) = "A+"
                  THEN <<"A", "+">>
                  ELSE <<BandOfTotal(st.marks[1] + st.marks[2] + st.marks[3])>>)

\* text is one header line, then exactly one line per Record of studs, in
\* store order.
ExportOf(text, studs) ==
    /\ Len(text) = Len(studs) + 1
    /\ Len(text[1]) = 8
    /\ \A i \in 1..Len(studs) : LineOfRecord(text[i + 1], studs[i])

\* C16 (as amended): every export that gets to write (the GUI's only for a
\* non-empty store, the CLI's for every store) writes one header line and then
\* exactly one line per Record in store order, whose total, average and grade
\* are those of the Record's marks at the time of the export; the GUI export
\* of the empty store warns "No records to save." and writes nothing.
C16_ExportLines ==
    [][IsSave(call') =>
          IF mode = "gui" /\ students = <<>>
          THEN /\ written' = <<>>
               /\ msgs' = <<Msg("Save CSV", <<"No records to save.">>)>>
          ELSE IF SaveWentThrough(call')
          THEN ExportOf(written', students)
          ELSE written' = <<>>]_vars

\* C16 witness: an export wrote the lines of two Records, the second with
\* total 290, average 96.67 and grade A+.
C16_TwoLinesWritten ==
    /\ IsSave(call) /\ SaveWentThrough(call)
    /\ Len(written) = 3
    /\ written[3][6] = <<"2", "9", "0">>
    /\ written[3][7] = <<"9", "6", ".", "6", "7">>
    /\ written[3][8] = <<"A", "+">>

\* C16 (as stated): export writes, for every store, one header line followed
\* by exactly one line per Record in store order, with total, average and
\* grade computed from the marks at the time of the export.
C16_ExportLinesForEveryStore ==
    [][(IsSave(call') /\ (SaveWentThrough(call') \/ Len(call'.args) = 0)) =>
          ExportOf(written', students)]_vars


\* C17: every export (GUI save_to_csv and CLI save_csv) writes as its first
\* line the header with exactly the eight column names roll, name, marks1,
\* marks2, marks3, total, average, grade, in that order.
C17_ExportHeader ==
    (IsSave(call) /\ written # <<>>) =>
        written[1] = <<"roll", "name", "marks1", "marks2", "marks3",
                       "total", "average", "grade">>


IsReport(c) == c.op = "report"

\* The remark of each grade.
RemarkOfGrade ==
    [g \in {"A+", "A", "B", "C", "D", "F"} |->
        CASE g \in {"A+", "A"} -> "Excellent"
          [] g = "B" -> "Good"
          [] g = "C" -> "Average"
          [] g = "D" -> "Needs Improvement"
          [] g = "F" -> "Fail"]

\* lines is the report of st: the title, then roll, name, marks, total,
\* average and grade in that order, then (richer variant) the remark of the
\* grade.
ReportOf(lines, st) ==
    /\ Len(lines) \in {7, 8}
    /\ lines[1] = <<"=== Student Report Card ===">>
    /\ lines[2] = <<"Roll No.:", st.roll>>
    /\ lines[3] = <<"Name    :", st.name>>
    /\ lines[4] = <<"Marks   :", st.marks>>
    /\ lines[5] = <<"Total   :", st.marks[1] + st.marks[2] + st.marks[3]>>
    /\ lines[6][1] = "Average :"
    /\ 3 * (2 * lines[6][2] - 1) <= 200 * lines[5][2]
    /\ 200 * lines[5][2] <= 3 * (2 * lines[6][2] + 1)
    /\ lines[7] = <<"Grade   :", BandOfTotal(lines[5][2])>>
    /\ Len(lines) = 8 =>
          /\ lines[8][1] = "Remark  :"
          /\ lines[7][2] \in DOMAIN RemarkOfGrade
          /\ lines[8][2] = RemarkOfGrade[lines[7][2]]

\* C18: report(record) emits the title line followed by the roll, name,
\* marks, total, average and grade lines in that fixed order, and the remark
\* line of the richer variant is a function of the grade alone: A+ and A give
\* Excellent, B Good, C Average, D Needs Improvement, F Fail.
C18_ReportLines ==
    (IsReport(call) /\ written # <<>>) =>
        /\ ReportOf(written, students[1])
        /\ Len(written) = 8 <=> call.args[1]

\* C18 witness: the richer report of a Student of grade C, remarked Average.
C18_GradeCRemarkedAverage ==
    /\ IsReport(call)
    /\ Len(written) = 8
    /\ written[7][2] = "C"
    /\ written[8][2] = "Average"


\* The query and export handlers: search, topper, CSV save, report.
IsReadOnlyCall(c) ==
    c.op \in {"search_student", "search", "show_topper", "topper",
              "save_to_csv", "save_csv", "export_report", "export_txt"}

\* The call ended in an error or empty outcome.
EndedInError(m) ==
    /\ m # <<>>
    /\ m[1][1] \in {"Save Error", "Permission Denied", "Export Error", "Traceback",
                    "Roll not found.", "Export", "Save CSV"}

\* C19: search, topper, export (CSV save) and report are read-only: whether
\* they succeed or end in an error or empty outcome, the store has the same
\* Records, fields and order after the call as before it.
C19_QueriesAndExportsReadOnly ==
    [][IsReadOnlyCall(call') => students' = students]_vars

\* C19 witness: an export of a store of two Records ended in an error.
C19_FailedExportOnTwoRecords ==
    /\ IsReadOnlyCall(call)
    /\ call.op \in {"save_to_csv", "export_report"}
    /\ EndedInError(msgs)
    /\ Len(students) = 2
    /\ students[1].marks # students[2].marks


\* C20: after any sequence of upsert, delete, reset and import operations
\* every Record of the store has a non-empty roll and a non-empty name (after
\* trimming surrounding whitespace).
C20_NonEmptyRollAndName ==
    \A i \in 1..Len(students) :
        Strip(students[i].roll) # <<>> /\ Strip(students[i].name) # <<>>


\* The call is a reset the user confirmed.
IsConfirmedReset(c) == c.op = "reset_all" /\ c.args[1]

\* C21: the session starts with an empty store; a confirmed reset leaves the
\* store empty whatever it held, and a lookup, search or topper on the store
\* it leaves sees no Record.
C21_ResetEmptiesStore ==
    /\ students = <<>>
    /\ [][/\ IsConfirmedReset(call') =>
                /\ students' = <<>>
                /\ \A r \in RollTexts : FindIndex(students', Strip(r)) = 0
          /\ (students = <<>> /\ IsSearch(call')) =>
                hits' = <<>>
          /\ (students = <<>> /\ IsTopper(call')) =>
                (top' = 0 /\ students' = <<>>)]_vars

\* C21 witness: a confirmed reset has just run and left store and table empty.
C21_ResetConfirmed ==
    /\ IsConfirmedReset(call)
    /\ students = <<>> /\ tree = <<>> /\ selection = {}


(***************************************************************************)
(* Student objects held by more than one list.  self.students and the list *)
(* a search builds hold the same Student objects, so a record here is the  *)
(* object's current fields together with its identity; hits is the list    *)
(* the last search built, as a caller that kept it sees it.                *)
(***************************************************************************)
\* A Student object: its fields and which object it is.
Identified(st, id) ==
    [id |-> id, roll |-> st.roll, name |-> st.name, marks |-> st.marks]

\* st.name = name; st.marks = marks on the object id, seen through a list.
Assigned(objs, id, name, marks) ==
    [i \in 1..Len(objs) |->
        IF objs[i].id = id
        THEN [objs[i] EXCEPT !.name = name, !.marks = marks]
        ELSE objs[i]]

\* The identity of a newly constructed Student: one no live list holds.
FreshId ==
    CHOOSE n \in 1..(Len(students) + Len(hits) + 1) :
        /\ \A i \in 1..Len(students) : students[i].id # n
        /\ \A i \in 1..Len(hits) : hits[i].id # n
        /\ \A k \in 1..(n - 1) :
              \/ \E i \in 1..Len(students) : students[i].id = k
              \/ \E i \in 1..Len(hits) : hits[i].id = k

RefRolls == {<<"a">>, <<"A", "b">>}
RefNames == {<<"B", "o">>, <<"a", "b">>}
RefMarks == {<<50, 100, 0>>, <<100, 90, 100>>}

RefInit ==
    /\ mode = "refs" /\ running = TRUE
    /\ students = <<>> /\ hits = <<>>
    /\ tree = <<>> /\ selection = {}
    /\ call = NoCall /\ msgs = <<>> /\ top = 0 /\ written = <<>>

\* ConsoleTracker.add_or_update with marks in range: append a new object, or
\* assign name and marks to the object found.
RefAddOrUpdate(roll, name, marks) ==
    /\ mode = "refs"
    /\ FindIndex(students, roll) = 0 => Len(students) < MaxStudents
    /\ call' = [op |-> "add_or_update", args |-> <<roll, name, marks>>]
    /\ IF FindIndex(students, roll) = 0
       THEN /\ students' = Append(students, Identified(Student(roll, name, marks), FreshId))
            /\ msgs' = <<Msg("Added.", <<>>)>>
            /\ UNCHANGED hits
       ELSE /\ students' = Assigned(students, students[FindIndex(students, roll)].id, name, marks)
            /\ hits' = Assigned(hits, students[FindIndex(students, roll)].id, name, marks)
            /\ msgs' = <<Msg("Updated.", <<>>)>>
    /\ UNCHANGED <<mode, running, tree, selection, top, written>>

\* ConsoleTracker.delete: del self.students[idx] takes the object out of the
\* store's list only.
RefDelete(roll) ==
    /\ mode = "refs"
    /\ call' = [op |-> "delete", args |-> roll]
    /\ IF FindIndex(students, roll) = 0
       THEN /\ msgs' = <<Msg("Roll not found.", <<>>)>>
            /\ UNCHANGED students
       ELSE /\ students' = Removed(students, FindIndex(students, roll))
            /\ msgs' = <<Msg("Deleted.", <<>>)>>
    /\ UNCHANGED <<mode, running, hits, tree, selection, top, written>>

\* ConsoleTracker.search: hits = [st for st in self.students if ...] is a new
\* list of the matching objects themselves.
RefSearch(raw, q) ==
    /\ mode = "refs"
    /\ call' = [op |-> "search", args |-> raw]
    /\ hits' = MatchingStudents(q, students)
    /\ msgs' = IF MatchingStudents(q, students) = <<>>
               THEN <<Msg("(no rows)", <<>>), Msg("No matches.", <<>>)>>
               ELSE <<Msg("table", <<"rows", Len(MatchingStudents(q, students))>>)>>
    /\ UNCHANGED <<mode, running, students, tree, selection, top, written>>

RefNext ==
    \/ \E r \in RefRolls, n \in RefNames, m \in RefMarks : RefAddOrUpdate(r, n, m)
    \/ \E r \in RefRolls : RefDelete(r)
    \/ \E c \in CliQueries : RefSearch(c.raw, c.q)

RefSpec == RefInit /\ [][RefNext]_vars

\* The step is an upsert or a delete made while a search result is held.
MutatesWhileHeld == call'.op \in {"add_or_update", "delete"} /\ hits # <<>>

C23_OnlyQuitEndsSession == running \/ call.op = "quit"


\* The file has no header line, or its header has fewer than 8 columns.
BadHeader(file) == file = <<>> \/ Len(file[1]) < 8

\* C24: every import entry point (GUI load_from_csv, CLI load_csv) rejects a
\* file with no header line or a header of fewer than 8 columns, and the
\* live store is unchanged.  (Violated: the CLI skips the first line without
\* looking at it.)
C24_BadHeaderRejected ==
    [][(IsLoad(call') /\ call'.args[1] /\ BadHeader(call'.args[3])) =>
          (students' = students /\ ~ReportsLoaded(msgs'))]_vars


\* The one error an upsert of the entry boxes showed.
ShowsInputError(text) == msgs = <<Msg("Input Error", <<text>>)>>

\* The mark texts of the call are not three integers in 0..100.
GivenMarksInvalid(c) ==
    \E k \in 1..3 :
        ~IntOf(GivenMarkTexts(c)[k]).ok \/ IntOf(GivenMarkTexts(c)[k]).val \notin 0..100

\* C25: validation runs in the order roll emptiness, name emptiness, marks:
\* an empty roll (after trimming) gives the roll error whatever the name and
\* marks are, an empty name with a roll gives the name error whatever the
\* marks are, and a marks error is shown only when roll and name are given.
C25_ValidationOrder ==
    call.op = "add_or_update_student" =>
        /\ GivenRoll(call) = <<>> => ShowsInputError("Roll number cannot be empty.")
        /\ (GivenRoll(call) # <<>> /\ GivenName(call) = <<>>) =>
              ShowsInputError("Name cannot be empty.")
        /\ (GivenRoll(call) # <<>> /\ GivenName(call) # <<>> /\ GivenMarksInvalid(call)) =>
              \/ ShowsInputError("Marks must be integers (0-100).")
              \/ ShowsInputError("Marks must be between 0 and 100.")

\* C25 witness: roll and name both empty after trimming and a mark that is
\* not an integer; the roll error was shown.
C25_AllThreeInvalid ==
    /\ call.op = "add_or_update_student"
    /\ GivenRoll(call) = <<>> /\ GivenName(call) = <<>> /\ GivenMarksInvalid(call)
    /\ ShowsInputError("Roll number cannot be empty.")


(***************************************************************************)
(* _parse_marks and the marks check of a CSV row, applied to three texts.  *)
(***************************************************************************)
\* Texts of the mark boxes and of the mark columns of a row.
MarkTexts ==
    {<<>>, <<"x">>, <<"-", "1">>, <<"0">>, <<" ", "5", "0">>, <<"1", "0", "0">>,
     <<"1", "0", "1">>, <<"5", ".", "0">>}

\* The three texts are given; nothing has been parsed yet.
ParseInit ==
    /\ mode = "parse" /\ running = TRUE
    /\ \E m1 \in MarkTexts, m2 \in MarkTexts, m3 \in MarkTexts :
          call = [op |-> "texts", args |-> <<m1, m2, m3>>]
    /\ students = <<>> /\ tree = <<>> /\ selection = {}
    /\ msgs = <<>> /\ hits = <<>> /\ top = 0 /\ written = <<>>

\* self._parse_marks(m1, m2, m3): hits is the list returned, msgs the
\* ValueError raised.
ParseMarksCall ==
    /\ mode = "parse" /\ call.op = "texts"
    /\ call' = [op |-> "_parse_marks", args |-> call.args]
    /\ hits' = ParseMarks(call.args[1], call.args[2], call.args[3]).nums
    /\ msgs' = IF ParseMarks(call.args[1], call.args[2], call.args[3]).err = "" THEN <<>>
               ELSE <<Msg("ValueError",
                          <<ParseMarks(call.args[1], call.args[2], call.args[3]).err>>)>>
    /\ UNCHANGED <<mode, running, students, tree, selection, top, written>>

\* The marks check load_from_csv makes on a row with these mark columns.
ParseRowMarks ==
    /\ mode = "parse" /\ call.op = "texts"
    /\ call' = [op |-> "row_marks", args |-> call.args]
    /\ msgs' = IF RowMarksError(IntOf(call.args[1]), IntOf(call.args[2]),
                                IntOf(call.args[3])) = "" THEN <<>>
               ELSE <<Msg("ValueError",
                          <<RowMarksError(IntOf(call.args[1]), IntOf(call.args[2]),
                                          IntOf(call.args[3]))>>)>>
    /\ hits' = IF RowMarksError(IntOf(call.args[1]), IntOf(call.args[2]),
                                IntOf(call.args[3])) = ""
               THEN <<IntOf(call.args[1]).val, IntOf(call.args[2]).val,
                      IntOf(call.args[3]).val>>
               ELSE <<>>
    /\ UNCHANGED <<mode, running, students, tree, selection, top, written>>

ParseNext == ParseMarksCall \/ ParseRowMarks

ParseSpec == ParseInit /\ [][ParseNext]_vars

IsParse(c) == c.op \in {"_parse_marks", "row_marks"}

NotIntegersError ==
    \/ msgs = <<Msg("ValueError", <<"Marks must be integers (0-100).">>)>>
    \/ msgs = <<Msg("ValueError", <<"marks must be integers.">>)>>

OutOfRangeError ==
    \/ msgs = <<Msg("ValueError", <<"Marks must be between 0 and 100.">>)>>
    \/ msgs = <<Msg("ValueError", <<"marks out of range 0-100.">>)>>

\* C26: if any of the three texts is not an integer the result is the
\* must-be-integers error, even when an earlier text is an integer outside
\* 0..100; the out-of-range error is given only when all three are integers
\* and one is outside 0..100; otherwise the three integers are returned in
\* input order.
C26_IntegersErrorFirst ==
    IsParse(call) =>
        /\ (\E k \in 1..3 : ~IntOf(call.args[k]).ok) => (NotIntegersError /\ hits = <<>>)
        /\ ((\A k \in 1..3 : IntOf(call.args[k]).ok)
              /\ \E k \in 1..3 : IntOf(call.args[k]).val \notin 0..100) =>
              (OutOfRangeError /\ hits = <<>>)
        /\ (\A k \in 1..3 : IntOf(call.args[k]).ok /\ IntOf(call.args[k]).val \in 0..100) =>
              (msgs = <<>> /\ hits = [k \in 1..3 |-> IntOf(call.args[k]).val])

\* C26 witness: 101 came first and a text that is no integer last, and
\* _parse_marks raised the must-be-integers error.
C26_OutOfRangeBeforeNonInteger ==
    /\ call.op = "_parse_marks"
    /\ call.args = <<<<"1", "0", "1">>, <<"0">>, <<"x">>>>
    /\ NotIntegersError


\* n / d to the nearest integer, a half going to the even neighbour.
RoundHalfEven(n, d) ==
    IF 2 * (n % d) < d THEN n \div d
    ELSE IF 2 * (n % d) > d THEN (n \div d) + 1
    ELSE IF (n \div d) % 2 = 0 THEN n \div d
    ELSE (n \div d) + 1

\* n / d to the nearest integer, a half going away from zero (n, d >= 0).
RoundHalfAway(n, d) ==
    IF 2 * (n % d) >= d THEN (n \div d) + 1 ELSE n \div d

\* The grade of an average given in hundredths.
GradeOfAverage(a) ==
    IF a >= 9000 THEN "A+" ELSE IF a >= 8000 THEN "A" ELSE IF a >= 7000 THEN "B"
    ELSE IF a >= 6000 THEN "C" ELSE IF a >= 5000 THEN "D" ELSE "F"

\* C27: for every mark triple in [0,100]^3 the exact total*100/3 is never
\* half-way between two integers (its remainder is 0, 1 or 2 thirds), so
\* rounding a half to even and rounding a half away from zero give the same
\* average, the one the Student has, and the same grade.
C27_NoRoundingTie ==
    (mode = "student" /\ tree # <<>>) =>
        LET t == tree[1].values[6]
        IN  /\ 2 * ((100 * t) % 3) # 3
            /\ RoundHalfEven(100 * t, 3) = RoundHalfAway(100 * t, 3)
            /\ tree[1].values[7] = RoundHalfEven(100 * t, 3)
            /\ tree[1].values[8] = GradeOfAverage(RoundHalfEven(100 * t, 3))
            /\ tree[1].values[8] = GradeOfAverage(RoundHalfAway(100 * t, 3))

\* C27 witness: a Student with total 269, whose exact average 89.666... is
\* rounded up to 89.67 and stays below the A+ threshold.
C27_TwoThirdsRoundedUp ==
    /\ mode = "student" /\ tree # <<>>
    /\ tree[1].values[6] = 269
    /\ tree[1].values[7] = 8967
    /\ tree[1].values[8] = "A"


\* The table holds one row per Record, keyed by roll, in store order, with
\* the Record's name and marks.
TreeShowsStore ==
    /\ Len(tree) = Len(students)
    /\ \A i \in 1..Len(students) :
          /\ tree[i].iid = students[i].roll
          /\ tree[i].values[1] = students[i].roll
          /\ tree[i].values[2] = students[i].name
          /\ SubSeq(tree[i].values, 3, 5) = students[i].marks
    /\ \A i, j \in 1..Len(tree) : tree[i].iid = tree[j].iid => i = j

IsGuiStoreCall(c) ==
    c.op \in {"add_or_update_student", "delete_student", "reset_all", "load_from_csv"}

\* C28: after every completed GUI operation that touches the store (add or
\* update, delete, reset, CSV load; success or error) the table holds exactly
\* one row per Record, keyed by roll, in store order, with the Record's
\* current name and marks.  (Violated: a load of rows that share a roll, or
\* of a row with a blank roll, stores every row and the table refresh stops
\* at the row it cannot insert.)
C28_TableShowsStore == IsGuiStoreCall(call) => TreeShowsStore


GatedCall(c) ==
    \/ c.op = "delete_student" /\ (c.args = <<>> \/ ~c.args[1])
    \/ c.op = "reset_all" /\ ~c.args[1]
    \/ c.op = "load_from_csv" /\ ~c.args[1]
    \/ c.op = "save_to_csv" /\ Len(c.args) = 1 /\ ~c.args[1]

\* C30: in the GUI a delete with no row selected, a delete or reset whose
\* confirmation is declined, and a CSV load or save whose file dialog is
\* cancelled leave the store (and the table showing it) exactly as it was.
C30_GatedCallsKeepStore ==
    [][GatedCall(call') => (students' = students /\ tree' = tree)]_vars

\* C30 witness: the confirmation of a delete of a selected Record was
\* declined and the Record is still there.
C30_DeleteDeclined ==
    /\ call.op = "delete_student" /\ call.args # <<>> /\ ~call.args[1]
    /\ HasRoll(students, call.args[2])
    /\ selection # {}

====
